---- MODULE Spec2Model ----
(***************************************************************************)
(* Gating engine of health-scan-demo: POST /api/health-scores/trigger      *)
(* (src/server/index.js), its Redis keys and their TTLs.                   *)
(*                                                                         *)
(* One behaviour follows the keys of one account id (mcUnderTest, chosen   *)
(* in Init): every key of the handler is prefixed by the account id, so    *)
(* requests of different accounts never share a key.  Requests are handled *)
(* concurrently; each `await redis.*` of the handler is one atomic step    *)
(* and the points between two awaits are the interleaving points.          *)
(*                                                                         *)
(* Spec    : NReq handlers interleave freely, during MaxOverlapTime ticks. *)
(* SeqSpec : one request at a time, each handled within a tick, during     *)
(*           MaxTime ticks.                                                *)
(* FailSpec: SeqSpec where a store call of the try block may reject.       *)
(* LiveSpec: one request at a time, arriving during MaxLiveTime ticks,     *)
(*           where the holder of a lock may crash; handlers and time are   *)
(*           fair.                                                         *)
(* ClientSpec: the client's App component alone, its calls answered by any *)
(*           response.                                                     *)
(*                                                                         *)
(* Time is counted in ticks of 90 s: the lock's EX of 90 s is one tick;    *)
(* COOLDOWN_SECONDS and ROLLING_WINDOW_SECONDS are read from the           *)
(* environment and are set to 2 and 3 ticks.                               *)
(***************************************************************************)
EXTENDS Integers, FiniteSets, Sequences, TLC

----------------------------------------------------------------------------
(* Bounds *)

NReq == 2
MaxTime == 6
MaxOverlapTime == 1
MaxCount == 4
MaxLiveTime == 2

(* Configuration *)

COOLDOWN_SECONDS == 2
ROLLING_WINDOW_SECONDS == 3
LOCK_EX == 1

----------------------------------------------------------------------------
(* File-backed mock DB (server/db/*.json) *)

Sections == {"insites", "reviews"}

NoId == "none"

MC_IDS == {"LOC12345", "LOC_TRIAL", "LOC_OVERRIDE", "LOC_UNKNOWN"}

\* mcAccount(mc_id)?.package ; "null" when the id is not in accounts.json
mcAccount(mc_id) ==
    CASE mc_id = "LOC12345" -> "PRO"
      [] mc_id = "LOC_TRIAL" -> "FREE"
      [] mc_id = "LOC_OVERRIDE" -> "FREE"
      [] OTHER -> "null"

\* POLICIES.packages[pkg]?.scans_allowed ?? 0
PolicyScansAllowed(pkg) ==
    CASE pkg = "PRO" -> 3
      [] pkg = "FREE" -> 0
      [] OTHER -> 0

\* POLICIES.sections[section]?.enabled_for || []
PolicyEnabledFor(section) ==
    CASE section = "insites" -> {"FREE", "PRO"}
      [] section = "reviews" -> {"PRO"}
      [] OTHER -> {}

NoOverride == [keys |-> {}, en |-> {}, has_sa |-> FALSE, scans_allowed |-> 0]

\* FEATURES_FILE[mc_id]
FEATURES_FILE(mc_id) ==
    IF mc_id = "LOC_OVERRIDE"
    THEN [keys |-> Sections, en |-> Sections, has_sa |-> TRUE, scans_allowed |-> 1]
    ELSE NoOverride

----------------------------------------------------------------------------
(* Redis *)

NoKey == [val |-> 0, ttl |-> -2]

Key(v, t) == [val |-> v, ttl |-> t]

\* redis.ttl: -2 when the key does not exist, -1 when it has no expiry
RedisTtl(k) == k.ttl

\* Number(await redis.get(key) || 0)
RedisGetNumber(k) == IF k = NoKey THEN 0 ELSE k.val

\* redis.set(key, v, { EX: seconds })
RedisSetEx(v, seconds) == Key(v, seconds)

\* mutant: the lock is set without an expiry
RedisSetNxNoExpiry(k, v, seconds) == IF k = NoKey THEN Key(v, -1) ELSE k

\* redis.set(key, v, { NX: true, EX: seconds }): the key after the call
RedisSetNxEx(k, v, seconds) == IF k = NoKey THEN Key(v, seconds) ELSE k

\* mutant: the increment is lost
RedisIncrLost(k) == IF k = NoKey THEN Key(1, -1) ELSE k

\* redis.incr(key): a missing key counts from 0 and is created without expiry
RedisIncr(k) == IF k = NoKey THEN Key(1, -1) ELSE [k EXCEPT !.val = k.val + 1]

\* mutant: the expire call is lost
RedisExpireLost(k, seconds) == k

\* redis.expire(key, seconds): no effect on a missing key
RedisExpire(k, seconds) == IF k = NoKey THEN k ELSE [k EXCEPT !.ttl = seconds]

\* one tick of the store's clock on one key
Age(k) ==
    IF k = NoKey \/ k.ttl = -1 THEN k
    ELSE IF k.ttl = 1 THEN NoKey ELSE [k EXCEPT !.ttl = k.ttl - 1]

----------------------------------------------------------------------------
(* Entitlement snapshot: the JSON object cached under user:<mc_id>:features *)

NoFeats == [keys |-> {}, en |-> {}, scans_allowed |-> -1]

\* mutant: an account that is not in the account data gets no default package
ComputeFeaturesNoDefault(mc_id, section) ==
    LET pkg == mcAccount(mc_id)
        scans_allowed == PolicyScansAllowed(pkg)
        enabled == pkg \in PolicyEnabledFor(section)
        ovr == FEATURES_FILE(mc_id)
    IN  [keys |-> {section} \cup ovr.keys,
         en |-> ((IF enabled THEN {section} ELSE {}) \ ovr.keys) \cup ovr.en,
         scans_allowed |-> IF ovr.has_sa THEN ovr.scans_allowed ELSE scans_allowed]

\* getFeatures, cache miss: base merged with the per-account override
ComputeFeatures(mc_id, section) ==
    LET acct == mcAccount(mc_id)
        pkg == IF acct = "null" THEN "FREE" ELSE acct
        scans_allowed == PolicyScansAllowed(pkg)
        enabled == pkg \in PolicyEnabledFor(section)
        ovr == FEATURES_FILE(mc_id)
    IN  [keys |-> {section} \cup ovr.keys,
         en |-> ((IF enabled THEN {section} ELSE {}) \ ovr.keys) \cup ovr.en,
         scans_allowed |-> IF ovr.has_sa THEN ovr.scans_allowed ELSE scans_allowed]

\* feats?.[section]?.enabled === true
Enabled(feats, section) == section \in feats.en

\* Number(feats?.scans_allowed ?? 0)
ScansAllowed(feats) == feats.scans_allowed

\* mutant: a plan with 0 scans counts as authorized
AuthorizedRealFromZero(scans_allowed) == scans_allowed >= 0

\* authorized_real = scans_allowed > 0
AuthorizedReal(scans_allowed) == scans_allowed > 0

\* mutant: the last second of the cooldown does not count
CooldownActiveOffByOne(cooldownTtl) == cooldownTtl > 1

\* cooldown_active = cooldownTtl > 0
CooldownActive(cooldownTtl) == cooldownTtl > 0

\* dry-run: quota_ok = scans_used < scans_allowed
DryQuotaOk(scans_used, scans_allowed) == scans_used < scans_allowed

\* dry-run: real_eligible_now
DryRealEligible(enabled, authorized_real, cooldown_active, quota_ok) ==
    enabled /\ authorized_real /\ ~cooldown_active /\ quota_ok

\* real: quota_ok = scans_used <= scans_allowed - 1 || ttlBefore > 0
RealQuotaOk(scans_used, scans_allowed, ttlBefore) ==
    scans_used <= scans_allowed - 1 \/ ttlBefore > 0

\* real: real_eligible_now = !cooldown_active && quota_ok
RealEligible(cooldown_active, quota_ok) == ~cooldown_active /\ quota_ok

----------------------------------------------------------------------------
(* State *)

VARIABLES
    mcUnderTest,  \* the account id whose keys this behaviour follows
    now,          \* Date.now(), in ticks
    cooldown,     \* key user:<mc_id>:cooldown
    count,        \* key user:<mc_id>:count
    lock,         \* keys user:lock:<mc_id>:<section>, one per section
    features,     \* key user:<mc_id>:features (NoFeats when not cached)
    pc,           \* position of each request in the handler
    req,          \* the handler's locals of each request (and its history)
    resp,         \* the JSON body each request has sent
    prev,         \* history: the response that was completed last
    granted,      \* history: OK responses since the counter key was created
    ui            \* the state of the client's App component and its pending call

vars ==
    <<mcUnderTest, now, cooldown, count, lock, features, pc, req, resp, prev, granted,
      ui>>

\* the variables of the server and its store
serverVars ==
    <<mcUnderTest, now, cooldown, count, lock, features, pc, req, resp, prev, granted>>

Reqs == 1..NReq

Null == -1

\* history: no response completed lately
NoPrev ==
    [dry_run |-> TRUE, section |-> "", reason |-> "", real_eligible_now |-> FALSE,
     at |-> Null]

\* history: the store as a request found it on arrival
NoSeen == [cooldown_active |-> FALSE, usage |-> 0, lock_held |-> FALSE]

NoReq ==
    [mc_id |-> NoId, section |-> "insites", dry_run |-> TRUE,
     cooldownTtl |-> -2, cooldown_expires_at |-> Null, feats |-> NoFeats,
     ttlBefore |-> -2, scans_used |-> 0,
     \* history, no local of the handler:
     pred |-> NoPrev,     \* the response completed just before this request arrived
     solo |-> TRUE,       \* no other request was being handled meanwhile
     seen |-> NoSeen,     \* the store on arrival
     touched |-> {}]      \* the keys whose value or TTL this request changed

NoResp ==
    [fields |-> {}, status |-> 0, accepted |-> FALSE, reason |-> "",
     enabled |-> FALSE, eligible_now |-> FALSE, real_eligible_now |-> FALSE,
     cooldown_active |-> FALSE, cooldown_expires_at |-> Null,
     scans_allowed |-> 0, scans_used_in_window |-> 0]

\* elig = null
NoElig == [mc_id |-> NoId, section |-> "", real_eligible_now |-> FALSE]

\* no call of api.js is awaited
NoCall == [kind |-> "none", mc_id |-> NoId, section |-> ""]

\* useState('LOC12345'), useState('insites'), useState(null), useState(false)
InitUi ==
    [mcId |-> "LOC12345", section |-> "insites", elig |-> NoElig, loading |-> FALSE,
     call |-> NoCall]

Init ==
    /\ mcUnderTest \in MC_IDS
    /\ now = 0
    /\ cooldown = NoKey
    /\ count = NoKey
    /\ lock = [s \in Sections |-> NoKey]
    /\ features = NoFeats
    /\ pc = [r \in Reqs |-> "idle"]
    /\ req = [r \in Reqs |-> NoReq]
    /\ resp = [r \in Reqs |-> NoResp]
    /\ prev = NoPrev
    /\ granted = 0
    /\ ui = InitUi

\* the requests whose handler is running
InHandler == {x \in Reqs : pc[x] \notin {"idle", "done"}}

\* the handler of request r has returned
Done(r) == pc[r] = "done"

----------------------------------------------------------------------------
(* Response bodies of the handler *)

\* status 400 { accepted: false, reason: 'REQ_MISSING_FIELD', message }
RespMissingField ==
    [NoResp EXCEPT !.fields = {"accepted", "reason", "message"},
                   !.status = 400, !.reason = "REQ_MISSING_FIELD"]

\* the dry-run body
RespDry(q, scans_used) ==
    LET enabled == Enabled(q.feats, q.section)
        scans_allowed == ScansAllowed(q.feats)
        cooldown_active == CooldownActive(q.cooldownTtl)
    IN  [NoResp EXCEPT
            !.fields = {"accepted", "reason", "enabled", "eligible_now",
                        "real_eligible_now", "cooldown_active",
                        "cooldown_expires_at", "scans_allowed",
                        "scans_used_in_window", "products", "report"},
            !.status = 200, !.accepted = TRUE, !.reason = "OK",
            !.enabled = enabled, !.eligible_now = TRUE,
            !.real_eligible_now =
                DryRealEligible(enabled, AuthorizedReal(scans_allowed), cooldown_active,
                                DryQuotaOk(scans_used, scans_allowed)),
            !.cooldown_active = cooldown_active,
            !.cooldown_expires_at = q.cooldown_expires_at,
            !.scans_allowed = scans_allowed,
            !.scans_used_in_window = scans_used]

\* { accepted: false, reason: 'NOT_IN_PACKAGE', ... }
RespNotInPackage(q) ==
    [NoResp EXCEPT
        !.fields = {"accepted", "reason", "enabled", "eligible_now", "scans_allowed",
                    "scans_used_in_window"},
        !.status = 200, !.reason = "NOT_IN_PACKAGE",
        !.scans_allowed = ScansAllowed(q.feats)]

\* { accepted: false, reason: 'NOT_AUTHORIZED', ... }
RespNotAuthorized(q) ==
    [NoResp EXCEPT
        !.fields = {"accepted", "reason", "message", "enabled", "eligible_now",
                    "scans_allowed", "scans_used_in_window"},
        !.status = 200, !.reason = "NOT_AUTHORIZED", !.enabled = TRUE,
        !.scans_allowed = ScansAllowed(q.feats)]

\* { accepted: false, reason: cooldown_active ? 'COOLDOWN' : 'SCAN_QUOTA_EXCEEDED', ... }
RespNotEligible(q) ==
    [NoResp EXCEPT
        !.fields = {"accepted", "reason", "enabled", "eligible_now",
                    "cooldown_expires_at", "scans_allowed", "scans_used_in_window"},
        !.status = 200,
        !.reason = IF CooldownActive(q.cooldownTtl) THEN "COOLDOWN"
                   ELSE "SCAN_QUOTA_EXCEEDED",
        !.enabled = TRUE,
        !.cooldown_expires_at = q.cooldown_expires_at,
        !.scans_allowed = ScansAllowed(q.feats),
        !.scans_used_in_window = IF q.ttlBefore > 0 THEN q.scans_used ELSE 1]

\* { accepted: false, reason: 'IN_FLIGHT', message }
RespInFlight ==
    [NoResp EXCEPT !.fields = {"accepted", "reason", "message"},
                   !.status = 200, !.reason = "IN_FLIGHT"]

\* the body of a granted real execution
RespOk(q, nextCooldownEnd) ==
    [NoResp EXCEPT
        !.fields = {"accepted", "reason", "enabled", "eligible_now",
                    "cooldown_expires_at", "scans_allowed", "scans_used_in_window",
                    "products", "report"},
        !.status = 200, !.accepted = TRUE, !.reason = "OK", !.enabled = TRUE,
        !.cooldown_expires_at = nextCooldownEnd,
        !.scans_allowed = ScansAllowed(q.feats),
        !.scans_used_in_window = q.scans_used]

----------------------------------------------------------------------------
(* The handler of POST /api/health-scores/trigger, one action per await *)

\* what is left of the locals q once the handler has returned: the request, the
\* snapshot getFeatures resolved for it, and its history
Returned(q) ==
    [NoReq EXCEPT !.mc_id = q.mc_id, !.section = q.section, !.dry_run = q.dry_run,
                  !.feats = q.feats,
                  !.pred = q.pred, !.solo = q.solo, !.seen = q.seen,
                  !.touched = q.touched]

\* request r moves to position p with locals q; body is sent when it responds here
Step(r, p, q, body) ==
    /\ pc' = [pc EXCEPT ![r] = p]
    /\ req' = [req EXCEPT ![r] = IF p = "done" THEN Returned(q) ELSE q]
    /\ resp' = [resp EXCEPT ![r] = body]

\* history: the key named k when a store call has changed it
Changed(k, old, new) == IF old # new THEN {k} ELSE {}

\* mutant: the check of mc_id is missing
ValidateSkipped(mc_id) == [pc |-> "ttlCooldown", body |-> NoResp]

\* if (!mc_id) return res.status(400).json(...)
Validate(mc_id) ==
    IF mc_id = NoId THEN [pc |-> "done", body |-> RespMissingField]
    ELSE [pc |-> "ttlCooldown", body |-> NoResp]

\* a request arrives: body and query are destructured, a missing mc_id is refused
Begin(r, mc_id, section, dry_run) ==
    /\ pc[r] = "idle"
    /\ \A x \in Reqs : ~Done(x)
    /\ ~dry_run =>
          RedisGetNumber(count) + Cardinality({x \in InHandler : ~req[x].dry_run})
             < MaxCount
    /\ LET overlap == InHandler # {} /\ mc_id # NoId
           q == [NoReq EXCEPT
                    !.mc_id = mc_id, !.section = section, !.dry_run = dry_run,
                    !.pred = IF overlap THEN NoPrev ELSE prev,
                    !.solo = ~overlap,
                    !.seen = [cooldown_active |-> RedisTtl(cooldown) > 0,
                              usage |-> RedisGetNumber(count),
                              lock_held |-> lock[section] # NoKey]]
       IN  /\ pc' = [pc EXCEPT ![r] = Validate(mc_id).pc]
           /\ resp' = [resp EXCEPT ![r] = Validate(mc_id).body]
           /\ req' = [x \in Reqs |->
                        IF x = r THEN q
                        ELSE IF overlap /\ x \in InHandler
                             THEN [req[x] EXCEPT !.solo = FALSE, !.pred = NoPrev]
                             ELSE req[x]]
           /\ prev' = IF overlap THEN NoPrev ELSE prev
    /\ UNCHANGED <<ui, mcUnderTest, now, cooldown, count, lock, features, granted>>

\* cooldownTtl = await redis.ttl(cooldownKey); cooldown_active; cooldown_expires_at
TtlCooldown(r) ==
    /\ pc[r] = "ttlCooldown"
    /\ LET ttl == RedisTtl(cooldown)
           q == [req[r] EXCEPT
                    !.cooldownTtl = ttl,
                    !.cooldown_expires_at =
                        IF CooldownActive(ttl) THEN now + ttl ELSE Null]
       IN  Step(r, "getFeatures", q, NoResp)
    /\ UNCHANGED <<ui, mcUnderTest, now, cooldown, count, lock, features, prev, granted>>

\* mutant: the dry-run branch is missing, a dry request takes the real path
GateWithoutDryBranch(q) ==
    LET enabled == Enabled(q.feats, q.section)
        authorized_real == AuthorizedReal(ScansAllowed(q.feats))
    IN  IF q.dry_run /\ ~(enabled /\ authorized_real)
        THEN [pc |-> "done", body |-> RespDry(q, 0)]
        ELSE [pc |-> "ttlCount", body |-> NoResp]

\* mutant: the strict gating runs before the dry-run branch
GateStrictFirst(q) ==
    LET enabled == Enabled(q.feats, q.section)
        authorized_real == AuthorizedReal(ScansAllowed(q.feats))
    IN  IF ~enabled THEN [pc |-> "done", body |-> RespNotInPackage(q)]
        ELSE IF ~authorized_real THEN [pc |-> "done", body |-> RespNotAuthorized(q)]
        ELSE IF q.dry_run THEN [pc |-> "dryTtlCount", body |-> NoResp]
        ELSE [pc |-> "ttlCount", body |-> NoResp]

\* mutant: the NOT_AUTHORIZED return is missing
GateWithoutAuthorized(q) ==
    LET enabled == Enabled(q.feats, q.section)
        authorized_real == AuthorizedReal(ScansAllowed(q.feats))
    IN  IF q.dry_run
        THEN IF enabled /\ authorized_real
             THEN [pc |-> "dryTtlCount", body |-> NoResp]
             ELSE [pc |-> "done", body |-> RespDry(q, 0)]
        ELSE IF ~enabled THEN [pc |-> "done", body |-> RespNotInPackage(q)]
        ELSE [pc |-> "ttlCount", body |-> NoResp]

\* what follows getFeatures up to the next await: the dry-run branch without a
\* counter read, the NOT_IN_PACKAGE and NOT_AUTHORIZED returns, or the counter read
Gate(q) ==
    LET enabled == Enabled(q.feats, q.section)
        authorized_real == AuthorizedReal(ScansAllowed(q.feats))
    IN  IF q.dry_run
        THEN IF enabled /\ authorized_real
             THEN [pc |-> "dryTtlCount", body |-> NoResp]
             ELSE [pc |-> "done", body |-> RespDry(q, 0)]
        ELSE IF ~enabled THEN [pc |-> "done", body |-> RespNotInPackage(q)]
        ELSE IF ~authorized_real THEN [pc |-> "done", body |-> RespNotAuthorized(q)]
        ELSE [pc |-> "ttlCount", body |-> NoResp]

\* mutant: a cached snapshot without the requested section is derived again
GetFeaturesGetPerSection(r) ==
    /\ pc[r] = "getFeatures"
    /\ IF features # NoFeats /\ req[r].section \in features.keys
       THEN LET q == [req[r] EXCEPT !.feats = features]
            IN  Step(r, Gate(q).pc, q, Gate(q).body)
       ELSE LET q == [req[r] EXCEPT
                        !.feats = ComputeFeatures(req[r].mc_id, req[r].section)]
            IN  Step(r, "setFeatures", q, NoResp)
    /\ UNCHANGED <<ui, mcUnderTest, now, cooldown, count, lock, features, prev, granted>>

\* getFeatures: cached = await redis.get(key); a hit returns it, a miss derives out
GetFeaturesGet(r) ==
    /\ pc[r] = "getFeatures"
    /\ IF features # NoFeats
       THEN LET q == [req[r] EXCEPT !.feats = features]
            IN  Step(r, Gate(q).pc, q, Gate(q).body)
       ELSE LET q == [req[r] EXCEPT
                        !.feats = ComputeFeatures(req[r].mc_id, req[r].section)]
            IN  Step(r, "setFeatures", q, NoResp)
    /\ UNCHANGED <<ui, mcUnderTest, now, cooldown, count, lock, features, prev, granted>>

\* getFeatures: await redis.set(key, JSON.stringify(out)); return out
GetFeaturesSet(r) ==
    /\ pc[r] = "setFeatures"
    /\ features' = req[r].feats
    /\ LET q == [req[r] EXCEPT
                    !.touched = @ \cup Changed("features", features, features')]
       IN  Step(r, Gate(q).pc, q, Gate(q).body)
    /\ UNCHANGED <<ui, mcUnderTest, now, cooldown, count, lock, prev, granted>>

\* dry-run: ttl = await redis.ttl(countKey)
DryTtlCount(r) ==
    /\ pc[r] = "dryTtlCount"
    /\ IF RedisTtl(count) > 0
       THEN Step(r, "dryGetCount", req[r], NoResp)
       ELSE Step(r, "done", req[r], RespDry(req[r], 0))
    /\ UNCHANGED <<ui, mcUnderTest, now, cooldown, count, lock, features, prev, granted>>

\* dry-run: scans_used = Number(await redis.get(countKey) || 0); res.json
DryGetCount(r) ==
    /\ pc[r] = "dryGetCount"
    /\ LET q == [req[r] EXCEPT !.scans_used = RedisGetNumber(count)]
       IN  Step(r, "done", q, RespDry(q, q.scans_used))
    /\ UNCHANGED <<ui, mcUnderTest, now, cooldown, count, lock, features, prev, granted>>

\* real: ttlBefore = await redis.ttl(countKey)
TtlCount(r) ==
    /\ pc[r] = "ttlCount"
    /\ LET q == [req[r] EXCEPT !.ttlBefore = RedisTtl(count)]
       IN  Step(r, IF q.ttlBefore > 0 THEN "getCount" ELSE "setCount", q, NoResp)
    /\ UNCHANGED <<ui, mcUnderTest, now, cooldown, count, lock, features, prev, granted>>

\* real: quota_ok, real_eligible_now and the COOLDOWN / SCAN_QUOTA_EXCEEDED return
Eligibility(q) ==
    IF RealEligible(CooldownActive(q.cooldownTtl),
                    RealQuotaOk(q.scans_used, ScansAllowed(q.feats), q.ttlBefore))
    THEN [pc |-> "lock", body |-> NoResp]
    ELSE [pc |-> "done", body |-> RespNotEligible(q)]

\* real, counter present: scans_used = Number(await redis.get(countKey) || 0)
GetCount(r) ==
    /\ pc[r] = "getCount"
    /\ LET q == [req[r] EXCEPT !.scans_used = RedisGetNumber(count)]
       IN  Step(r, Eligibility(q).pc, q, Eligibility(q).body)
    /\ UNCHANGED <<ui, mcUnderTest, now, cooldown, count, lock, features, prev, granted>>

\* real, counter absent: scans_used = 1; await redis.set(countKey, 1, { EX })
SetCount(r) ==
    /\ pc[r] = "setCount"
    /\ count' = RedisSetEx(1, ROLLING_WINDOW_SECONDS)
    /\ granted' = IF count = NoKey THEN 0 ELSE granted
    /\ LET q == [req[r] EXCEPT !.scans_used = 1,
                               !.touched = @ \cup Changed("count", count, count')]
       IN  Step(r, Eligibility(q).pc, q, Eligibility(q).body)
    /\ UNCHANGED <<ui, mcUnderTest, now, cooldown, lock, features, prev>>

\* lock = await redis.set(lockKey, corr, { NX: true, EX: 90 }); IN_FLIGHT when refused
Lock(r) ==
    /\ pc[r] = "lock"
    /\ LET s == req[r].section
           q == [req[r] EXCEPT !.touched = @ \cup Changed("lock", lock, lock')]
       IN  /\ lock' = [lock EXCEPT ![s] = RedisSetNxEx(lock[s], r, LOCK_EX)]
           /\ IF lock[s] = NoKey
              THEN Step(r, IF q.ttlBefore > 0 THEN "incr" ELSE "setCooldown", q, NoResp)
              ELSE Step(r, "done", q, RespInFlight)
    /\ UNCHANGED <<ui, mcUnderTest, now, cooldown, count, features, prev, granted>>

\* scans_used = await redis.incr(countKey)
Incr(r) ==
    /\ pc[r] = "incr"
    /\ count' = RedisIncr(count)
    /\ granted' = IF count = NoKey THEN 0 ELSE granted
    /\ LET q == [req[r] EXCEPT !.scans_used = count'.val,
                               !.touched = @ \cup Changed("count", count, count')]
       IN  Step(r, "expire", q, NoResp)
    /\ UNCHANGED <<ui, mcUnderTest, now, cooldown, lock, features, prev>>

\* await redis.expire(countKey, ROLLING_WINDOW_SECONDS)
Expire(r) ==
    /\ pc[r] = "expire"
    /\ count' = RedisExpire(count, ROLLING_WINDOW_SECONDS)
    /\ LET q == [req[r] EXCEPT !.touched = @ \cup Changed("count", count, count')]
       IN  Step(r, "setCooldown", q, NoResp)
    /\ UNCHANGED <<ui, mcUnderTest, now, cooldown, lock, features, prev, granted>>

\* await redis.set(cooldownKey, '1', { EX: COOLDOWN_SECONDS })
SetCooldown(r) ==
    /\ pc[r] = "setCooldown"
    /\ cooldown' = RedisSetEx(1, COOLDOWN_SECONDS)
    /\ LET q == [req[r] EXCEPT
                    !.touched = @ \cup Changed("cooldown", cooldown, cooldown')]
       IN  Step(r, "ttlCooldownAfter", q, NoResp)
    /\ UNCHANGED <<ui, mcUnderTest, now, count, lock, features, prev, granted>>

\* newCooldownTtl = await redis.ttl(cooldownKey); nextCooldownEnd; res.json (OK)
TtlCooldownAfter(r) ==
    /\ pc[r] = "ttlCooldownAfter"
    /\ granted' = granted + 1
    /\ Step(r, "finally", req[r], RespOk(req[r], now + RedisTtl(cooldown)))
    /\ UNCHANGED <<ui, mcUnderTest, now, cooldown, count, lock, features, prev>>

\* redis.incr, redis.expire, redis.set or redis.ttl of the try block rejects: the
\* call has no effect, finally runs next and the handler sends no response
Throw(r) ==
    /\ pc[r] \in {"incr", "expire", "setCooldown", "ttlCooldownAfter"}
    /\ Step(r, "finally", req[r], NoResp)
    /\ UNCHANGED <<ui, mcUnderTest, now, cooldown, count, lock, features, prev, granted>>

\* mutant: the lock is released at the end of the try block, not in finally
FinallyAfterTry(r) ==
    /\ pc[r] = "finally"
    /\ lock' = IF resp[r].reason = "OK"
               THEN [lock EXCEPT ![req[r].section] = NoKey] ELSE lock
    /\ LET q == [req[r] EXCEPT !.touched = @ \cup Changed("lock", lock, lock')]
       IN  Step(r, "done", q, resp[r])
    /\ UNCHANGED <<ui, mcUnderTest, now, cooldown, count, features, prev, granted>>

\* finally { await redis.del(lockKey) }
Finally(r) ==
    /\ pc[r] = "finally"
    /\ lock' = [lock EXCEPT ![req[r].section] = NoKey]
    /\ LET q == [req[r] EXCEPT !.touched = @ \cup Changed("lock", lock, lock')]
       IN  Step(r, "done", q, resp[r])
    /\ UNCHANGED <<ui, mcUnderTest, now, cooldown, count, features, prev, granted>>

\* the handler has returned and its response is taken off the slot; it is kept
\* as the response completed last when the run is one of consecutive requests
Retire(r, consecutive) ==
    /\ Done(r)
    /\ Step(r, "idle", NoReq, NoResp)
    /\ prev' = IF consecutive /\ InHandler = {} /\ req[r].solo
               THEN [dry_run |-> req[r].dry_run, section |-> req[r].section,
                     reason |-> resp[r].reason,
                     real_eligible_now |-> resp[r].real_eligible_now, at |-> now]
               ELSE NoPrev
    /\ UNCHANGED <<ui, mcUnderTest, now, cooldown, count, lock, features, granted>>

\* one tick of time, up to the horizon: every TTL of the store runs down and
\* expired keys disappear (a returned response is taken off its slot first)
Tick(horizon) ==
    /\ now < horizon
    /\ \A r \in Reqs : ~Done(r)
    /\ now' = now + 1
    /\ cooldown' = Age(cooldown)
    /\ count' = Age(count)
    /\ lock' = [s \in Sections |-> Age(lock[s])]
    /\ granted' = IF count' = NoKey THEN 0 ELSE granted
    /\ prev' = IF prev # NoPrev /\ now' - prev.at < COOLDOWN_SECONDS THEN prev ELSE NoPrev
    /\ UNCHANGED <<ui, mcUnderTest, features, pc, req, resp>>

\* NReq requests are handled concurrently
Next ==
    \/ \E r \in Reqs, mc_id \in {mcUnderTest, NoId}, section \in Sections,
          dry_run \in BOOLEAN : Begin(r, mc_id, section, dry_run)
    \/ \E r \in Reqs : TtlCooldown(r)
    \/ \E r \in Reqs : GetFeaturesGet(r)
    \/ \E r \in Reqs : GetFeaturesSet(r)
    \/ \E r \in Reqs : DryTtlCount(r)
    \/ \E r \in Reqs : DryGetCount(r)
    \/ \E r \in Reqs : TtlCount(r)
    \/ \E r \in Reqs : GetCount(r)
    \/ \E r \in Reqs : SetCount(r)
    \/ \E r \in Reqs : Lock(r)
    \/ \E r \in Reqs : Incr(r)
    \/ \E r \in Reqs : Expire(r)
    \/ \E r \in Reqs : SetCooldown(r)
    \/ \E r \in Reqs : TtlCooldownAfter(r)
    \/ \E r \in Reqs : Finally(r)
    \/ \E r \in Reqs : Retire(r, FALSE)
    \/ Tick(MaxOverlapTime)

Spec == Init /\ [][Next]_vars

\* one request at a time, handled within a tick
SeqNext ==
    \/ \E r \in Reqs, mc_id \in {mcUnderTest, NoId}, section \in Sections,
          dry_run \in BOOLEAN : InHandler = {} /\ Begin(r, mc_id, section, dry_run)
    \/ \E r \in Reqs : TtlCooldown(r)
    \/ \E r \in Reqs : GetFeaturesGet(r)
    \/ \E r \in Reqs : GetFeaturesSet(r)
    \/ \E r \in Reqs : DryTtlCount(r)
    \/ \E r \in Reqs : DryGetCount(r)
    \/ \E r \in Reqs : TtlCount(r)
    \/ \E r \in Reqs : GetCount(r)
    \/ \E r \in Reqs : SetCount(r)
    \/ \E r \in Reqs : Lock(r)
    \/ \E r \in Reqs : Incr(r)
    \/ \E r \in Reqs : Expire(r)
    \/ \E r \in Reqs : SetCooldown(r)
    \/ \E r \in Reqs : TtlCooldownAfter(r)
    \/ \E r \in Reqs : Finally(r)
    \/ \E r \in Reqs : Retire(r, TRUE)
    \/ InHandler = {} /\ Tick(MaxTime)

SeqSpec == Init /\ [][SeqNext]_vars

\* one request at a time; a store call of the try block may reject
FailNext ==
    \/ SeqNext
    \/ \E r \in Reqs : Throw(r)

FailSpec == Init /\ [][FailNext]_vars

\* request r is between its successful lock acquisition and its release
InCritical(r) == pc[r] \in {"incr", "expire", "setCooldown", "ttlCooldownAfter", "finally"}

\* the requests whose handler is still going to take a step
Running == {x \in Reqs : pc[x] \notin {"idle", "done", "crashed"}}

\* the process handling r dies or hangs for good between the SET NX of the
\* lock and the redis.del of the finally block: the lock key is left as it is
Crash(r) ==
    /\ InCritical(r)
    /\ pc' = [pc EXCEPT ![r] = "crashed"]
    /\ UNCHANGED <<ui, mcUnderTest, now, cooldown, count, lock, features, req, resp,
                   prev, granted>>

\* one step of the handler of request r
HandlerStep(r) ==
    \/ TtlCooldown(r) \/ GetFeaturesGet(r) \/ GetFeaturesSet(r)
    \/ DryTtlCount(r) \/ DryGetCount(r)
    \/ TtlCount(r) \/ GetCount(r) \/ SetCount(r)
    \/ Lock(r) \/ Incr(r) \/ Expire(r) \/ SetCooldown(r) \/ TtlCooldownAfter(r)
    \/ Finally(r)

\* time passes while no handler is running
LiveTick == Running = {} /\ Tick(MaxLiveTime + LOCK_EX)

\* one request at a time, arriving during MaxLiveTime ticks; the holder of a
\* lock may crash
LiveNext ==
    \/ \E r \in Reqs, mc_id \in {mcUnderTest, NoId}, section \in Sections,
          dry_run \in BOOLEAN :
          Running = {} /\ now < MaxLiveTime /\ Begin(r, mc_id, section, dry_run)
    \/ \E r \in Reqs : HandlerStep(r)
    \/ \E r \in Reqs : Crash(r)
    \/ \E r \in Reqs : Retire(r, TRUE)
    \/ LiveTick

\* a handler that has not crashed goes on to its next await and its response
\* is delivered; time never stops, however many requests arrive
LiveSpec ==
    /\ Init /\ [][LiveNext]_vars
    /\ WF_vars(\E r \in Reqs : HandlerStep(r) \/ Retire(r, TRUE))
    /\ SF_vars(LiveTick)

----------------------------------------------------------------------------
(* The client: App (src/client/src/App.jsx) and its calls of api.js *)

\* db.accounts, the options of the MC ID select
ClientAccounts == {m \in MC_IDS : mcAccount(m) # "null"}

\* realEnabled = !!elig?.real_eligible_now
realEnabled == ui.elig.real_eligible_now

\* the real button: disabled={!realEnabled || loading}
RealButtonEnabled == realEnabled /\ ~ui.loading

\* onChange of the MC ID select: setMcId(m), then the effect on [mcId, section]
\* clears elig; the select is not disabled while a call is awaited
SetMcId(m) ==
    /\ m # ui.mcId
    /\ ui' = [ui EXCEPT !.mcId = m, !.elig = NoElig]
    /\ UNCHANGED serverVars

\* runDry up to its await: setLoading(true); dryRun(mcId, section, ...)
runDry ==
    /\ ~ui.loading
    /\ ui' = [ui EXCEPT !.loading = TRUE,
                        !.call = [kind |-> "dryRun", mc_id |-> ui.mcId,
                                  section |-> ui.section]]
    /\ UNCHANGED serverVars

\* runReal up to its first await: setLoading(true); trigger(mcId, section, ...)
runReal ==
    /\ RealButtonEnabled
    /\ ui' = [ui EXCEPT !.loading = TRUE,
                        !.call = [kind |-> "trigger", mc_id |-> ui.mcId,
                                  section |-> ui.section]]
    /\ UNCHANGED serverVars

\* the awaited dryRun of runDry or runReal resolves: setElig(res);
\* finally setLoading(false).  The response answers the request that was sent.
DryRunResolves(real_eligible_now) ==
    /\ ui.call.kind = "dryRun"
    /\ ui' = [ui EXCEPT !.elig = [mc_id |-> ui.call.mc_id, section |-> ui.call.section,
                                  real_eligible_now |-> real_eligible_now],
                        !.loading = FALSE, !.call = NoCall]
    /\ UNCHANGED serverVars

\* the awaited trigger of runReal resolves: runReal goes on to
\* dryRun(mcId, section, ...) with the mcId and section of its closure
TriggerResolves ==
    /\ ui.call.kind = "trigger"
    /\ ui' = [ui EXCEPT !.call = [@ EXCEPT !.kind = "dryRun"]]
    /\ UNCHANGED serverVars

\* the awaited call rejects (handle throws on a non-2xx status):
\* catch setError; finally setLoading(false)
CallRejects ==
    /\ ui.call # NoCall
    /\ ui' = [ui EXCEPT !.loading = FALSE, !.call = NoCall]
    /\ UNCHANGED serverVars

ClientNext ==
    \/ \E m \in ClientAccounts : SetMcId(m)
    \/ runDry
    \/ runReal
    \/ \E e \in BOOLEAN : DryRunResolves(e)
    \/ TriggerResolves
    \/ CallRejects

ClientSpec == Init /\ [][ClientNext]_vars

----------------------------------------------------------------------------
(* Properties *)

GateKeys == {"cooldown", "count", "lock"}

\* request r takes a step of its handler, in dry mode
DryStep(r) ==
    /\ pc'[r] # pc[r]
    /\ IF pc[r] = "idle" THEN req'[r].dry_run ELSE req[r].dry_run

\* the entitlement cached for the account lets a real request for section s pass
Entitled(s) == Enabled(features, s) /\ AuthorizedReal(ScansAllowed(features))

\* C1: no step of a dry-mode request changes the value or the TTL of the
\* cooldown key, the counter key or a lock key; in particular it never
\* acquires the lock.
C1_DryLeavesGateKeys ==
    [][\A r \in Reqs :
          DryStep(r) => cooldown' = cooldown /\ count' = count /\ lock' = lock]_vars

\* C1 witness: a dry-mode request has been answered while the cooldown key, the
\* counter key and the lock key of its section all exist.
C1_Witness ==
    \E r \in Reqs :
        /\ Done(r) /\ req[r].dry_run /\ resp[r].reason = "OK"
        /\ cooldown # NoKey /\ count # NoKey /\ lock[req[r].section] # NoKey

\* C2: the real_eligible_now of a dry-mode request is true exactly when the
\* real-mode request for the same account and section that follows it
\* immediately (nothing in between, no tick) returns OK.
C2_DryPredictsReal ==
    \A r \in Reqs :
        (/\ Done(r) /\ ~req[r].dry_run /\ req[r].mc_id # NoId
         /\ req[r].pred.reason = "OK" /\ req[r].pred.dry_run
         /\ req[r].pred.section = req[r].section /\ req[r].pred.at = now)
        => (resp[r].reason = "OK" <=> req[r].pred.real_eligible_now)

\* C3: of two overlapping real-mode requests for the same account and section
\* that both arrive with the section entitled, no cooldown active and quota
\* available, exactly one receives OK and the other IN_FLIGHT, and the usage
\* counter has advanced by exactly 1 once both have returned.
C3_OneOfTwoGranted ==
    \A a, b \in Reqs :
        (/\ a # b /\ Done(a) /\ Done(b)
         /\ ~req[a].dry_run /\ ~req[b].dry_run
         /\ req[a].mc_id # NoId /\ req[b].mc_id # NoId
         /\ req[a].section = req[b].section
         /\ ~req[a].solo /\ ~req[b].solo
         /\ Entitled(req[a].section)
         /\ ~req[a].seen.cooldown_active /\ ~req[b].seen.cooldown_active
         /\ req[a].seen.usage < ScansAllowed(features)
         /\ req[b].seen.usage < ScansAllowed(features)
         /\ req[a].seen.usage <= req[b].seen.usage)
        => /\ {resp[a].reason, resp[b].reason} = {"OK", "IN_FLIGHT"}
           /\ RedisGetNumber(count) = req[a].seen.usage + 1

\* C4: a real-mode request returns OK only if the usage of the window before
\* the call is strictly less than scans_allowed.
C4_OkOnlyUnderQuota ==
    \A r \in Reqs :
        (~req[r].dry_run /\ resp[r].reason = "OK")
        => req[r].seen.usage < resp[r].scans_allowed

C6_NoGrantDuringCooldown ==
    [][\A r \in Reqs :
          (pc[r] = "setCooldown" /\ pc'[r] # pc[r])
          => ~CooldownActive(RedisTtl(cooldown))]_vars

\* C7: a dry-mode request with an account id returns accepted = true, reason OK,
\* eligible_now = true and a report, whatever the store holds.
C7_DryAlwaysAccepted ==
    \A r \in Reqs :
        (Done(r) /\ req[r].dry_run /\ req[r].mc_id # NoId)
        => /\ resp[r].accepted /\ resp[r].reason = "OK" /\ resp[r].eligible_now
           /\ "report" \in resp[r].fields

\* C7 witness: a dry-mode request has been accepted while the cooldown is
\* active, the quota is used up and the lock of its section is held.
C7_Witness ==
    \E r \in Reqs :
        /\ Done(r) /\ req[r].dry_run /\ req[r].mc_id # NoId
        /\ resp[r].accepted /\ resp[r].cooldown_active
        /\ resp[r].scans_used_in_window >= resp[r].scans_allowed
        /\ lock[req[r].section] # NoKey

\* the reason the precedence order gives a real-mode request for section s
\* that finds the store as seen
ReasonInOrder(s, seen) ==
    IF ~Enabled(features, s) THEN "NOT_IN_PACKAGE"
    ELSE IF ScansAllowed(features) = 0 THEN "NOT_AUTHORIZED"
    ELSE IF seen.cooldown_active THEN "COOLDOWN"
    ELSE IF seen.usage >= ScansAllowed(features) THEN "SCAN_QUOTA_EXCEEDED"
    ELSE IF seen.lock_held THEN "IN_FLIGHT"
    ELSE "OK"

\* C8: the reason of a real-mode request is the first that applies in the
\* order NOT_IN_PACKAGE, NOT_AUTHORIZED, COOLDOWN, SCAN_QUOTA_EXCEEDED,
\* IN_FLIGHT, and OK when none applies.
C8_ReasonPrecedence ==
    \A r \in Reqs :
        (Done(r) /\ ~req[r].dry_run /\ req[r].mc_id # NoId)
        => resp[r].reason = ReasonInOrder(req[r].section, req[r].seen)

\* C9: for the account with scans_allowed = 3, requests handled one after the
\* other from an empty store: every OK reports as scans_used_in_window the
\* number of executions granted in the window so far and arms the cooldown,
\* and a real-mode request right after an OK returns COOLDOWN and leaves the
\* counter alone.
C9_KthGrantReportsK ==
    mcUnderTest = "LOC12345" =>
        \A r \in Reqs :
            /\ (pc[r] \in {"finally", "done"} /\ ~req[r].dry_run
                /\ resp[r].reason = "OK")
               => /\ resp[r].scans_used_in_window = granted
                  /\ RedisGetNumber(count) = granted
                  /\ RedisTtl(cooldown) = COOLDOWN_SECONDS
            /\ (/\ Done(r) /\ ~req[r].dry_run /\ req[r].mc_id # NoId
                /\ req[r].pred.reason = "OK" /\ ~req[r].pred.dry_run
                /\ req[r].pred.at = now /\ Entitled(req[r].section))
               => /\ resp[r].reason = "COOLDOWN"
                  /\ "count" \notin req[r].touched

\* C9 witness: the third granted execution has returned OK with
\* scans_used_in_window = 3.
C9_Witness ==
    /\ mcUnderTest = "LOC12345"
    /\ \E r \in Reqs :
          /\ Done(r) /\ ~req[r].dry_run /\ resp[r].reason = "OK"
          /\ resp[r].scans_used_in_window = 3 /\ granted = 3

\* C10: a real-mode request that ends in COOLDOWN or SCAN_QUOTA_EXCEEDED has
\* changed neither the counter key nor the cooldown key nor the lock key.
C10_RejectionsDoNotMutate ==
    \A r \in Reqs :
        (Done(r) /\ resp[r].reason \in {"COOLDOWN", "SCAN_QUOTA_EXCEEDED"})
        => req[r].touched \cap GateKeys = {}

\* C11: a real-mode request that ends in IN_FLIGHT has changed neither the
\* counter key (existence, value, TTL) nor the cooldown key.
C11_InFlightDoesNotMutate ==
    \A r \in Reqs :
        (Done(r) /\ resp[r].reason = "IN_FLIGHT")
        => req[r].touched \cap {"count", "cooldown"} = {}

\* C12: a real-mode request whose resolved snapshot does not enable the section
\* returns NOT_IN_PACKAGE, one whose snapshot enables it with scans_allowed = 0
\* returns NOT_AUTHORIZED, and in both cases the request has changed neither
\* the counter key nor the cooldown key nor the lock key.
C12_EntitlementRejections ==
    \A r \in Reqs :
        (Done(r) /\ ~req[r].dry_run /\ req[r].mc_id # NoId)
        => /\ ~Enabled(req[r].feats, req[r].section)
              => /\ resp[r].reason = "NOT_IN_PACKAGE"
                 /\ req[r].touched \cap GateKeys = {}
           /\ (Enabled(req[r].feats, req[r].section) /\ ScansAllowed(req[r].feats) = 0)
              => /\ resp[r].reason = "NOT_AUTHORIZED"
                 /\ req[r].touched \cap GateKeys = {}

\* C12 witness: a real-mode request has been answered NOT_IN_PACKAGE while the
\* counter key and the cooldown key of its account exist.
C12_Witness ==
    \E r \in Reqs :
        /\ Done(r) /\ ~req[r].dry_run /\ resp[r].reason = "NOT_IN_PACKAGE"
        /\ count # NoKey /\ cooldown # NoKey

\* C13: with the section enabled and scans_allowed = 0 in the resolved snapshot,
\* a dry-mode request returns real_eligible_now = false and a real-mode request
\* returns NOT_AUTHORIZED.
C13_ZeroScansNeverReal ==
    \A r \in Reqs :
        (/\ Done(r) /\ req[r].mc_id # NoId
         /\ Enabled(req[r].feats, req[r].section) /\ ScansAllowed(req[r].feats) = 0)
        => IF req[r].dry_run
           THEN resp[r].accepted /\ ~resp[r].real_eligible_now
           ELSE resp[r].reason = "NOT_AUTHORIZED"

\* C13 witness: a real-mode request for an enabled section of a plan with
\* scans_allowed = 0 has been answered NOT_AUTHORIZED while a dry-mode request
\* for it was being handled.
C13_Witness ==
    \E r, d \in Reqs :
        /\ Done(r) /\ ~req[r].dry_run /\ resp[r].reason = "NOT_AUTHORIZED"
        /\ resp[r].enabled /\ resp[r].scans_allowed = 0
        /\ d # r /\ req[d].dry_run /\ req[d].mc_id # NoId /\ pc[d] # "idle"

\* C14: a request without account id, dry or real, is answered in its first
\* step with status 400, accepted = false and reason REQ_MISSING_FIELD; that
\* step resolves no entitlement and leaves every key of the store as it was,
\* and the handler has returned, so that no store call is made for it.
C14_MissingIdRefusedFirst ==
    [][\A r \in Reqs :
          (pc[r] = "idle" /\ pc'[r] # "idle" /\ req'[r].mc_id = NoId)
          => /\ pc'[r] = "done"
             /\ resp'[r].status = 400 /\ ~resp'[r].accepted
             /\ resp'[r].reason = "REQ_MISSING_FIELD"
             /\ req'[r].feats = NoFeats /\ req'[r].touched = {}
             /\ cooldown' = cooldown /\ count' = count /\ lock' = lock
             /\ features' = features]_vars

\* C14 witness: a real-mode request without account id has been refused
\* REQ_MISSING_FIELD while the cooldown key, the counter key and a lock key
\* exist.
C14_Witness ==
    \E r \in Reqs :
        /\ Done(r) /\ req[r].mc_id = NoId /\ ~req[r].dry_run
        /\ resp[r].reason = "REQ_MISSING_FIELD" /\ ~resp[r].accepted
        /\ cooldown # NoKey /\ count # NoKey /\ \E s \in Sections : lock[s] # NoKey

\* the snapshot of the lowest tier (FREE) for section s, without override
LowestTierSnapshot(s) ==
    [keys |-> {s},
     en |-> IF "FREE" \in PolicyEnabledFor(s) THEN {s} ELSE {},
     scans_allowed |-> PolicyScansAllowed("FREE")]

\* C15: for an account id that is not in the account data and has no override,
\* the cached snapshot is the one of the lowest tier (FREE) for the section
\* first asked for, with that tier's scans_allowed, and a real-mode request for
\* a section that FREE does not enable returns NOT_IN_PACKAGE.
C15_UnknownAccountLowestTier ==
    (mcAccount(mcUnderTest) = "null" /\ FEATURES_FILE(mcUnderTest) = NoOverride)
    => /\ features # NoFeats => \E s \in Sections : features = LowestTierSnapshot(s)
       /\ \A r \in Reqs :
             (/\ Done(r) /\ ~req[r].dry_run /\ req[r].mc_id # NoId
              /\ "FREE" \notin PolicyEnabledFor(req[r].section))
             => resp[r].reason = "NOT_IN_PACKAGE"

\* C15 witness: for the unknown account the snapshot of a section FREE enables
\* is cached and a real-mode request for a section FREE does not enable has
\* been answered NOT_IN_PACKAGE.
C15_Witness ==
    /\ mcAccount(mcUnderTest) = "null" /\ FEATURES_FILE(mcUnderTest) = NoOverride
    /\ features # NoFeats /\ features.en # {} /\ features.scans_allowed = 0
    /\ \E r \in Reqs :
          /\ Done(r) /\ ~req[r].dry_run /\ req[r].mc_id # NoId
          /\ "FREE" \notin PolicyEnabledFor(req[r].section)
          /\ resp[r].reason = "NOT_IN_PACKAGE"

\* C16: no two real-mode requests for the same section of the account are
\* between lock acquisition and release at the same time, also when the lock's
\* TTL can run out while its holder is still running.
C16_OneHolderPerSection ==
    \A a, b \in Reqs :
        (a # b /\ InCritical(a) /\ InCritical(b))
        => req[a].section # req[b].section

\* C17: once a request has returned, whether its try block completed or one of
\* its store calls (increment, TTL refresh, cooldown set) failed, no lock key
\* holds the token it acquired.
C17_LockReleasedOnEveryExit ==
    \A r \in Reqs :
        pc[r] \in {"idle", "done"} => \A s \in Sections : lock[s].val # r

\* C17 witness: a request has returned without a response after it wrote the
\* counter and acquired the lock (a store call of its try block failed before
\* the cooldown was set), and the lock key of its section is absent.
C17_Witness ==
    \E r \in Reqs :
        /\ Done(r) /\ ~req[r].dry_run /\ req[r].mc_id # NoId /\ resp[r] = NoResp
        /\ {"lock", "count"} \subseteq req[r].touched /\ cooldown = NoKey
        /\ lock[req[r].section] = NoKey

\* C18: a dry-mode request that finds the counter key absent (the window has
\* run out, or no window was opened yet) reports scans_used_in_window = 0, and
\* the first real execution granted after the counter key was absent reports
\* scans_used_in_window = 1.
C18_UsageRestartsAfterWindow ==
    \A r \in Reqs :
        /\ (Done(r) /\ req[r].dry_run /\ req[r].mc_id # NoId /\ req[r].seen.usage = 0)
           => resp[r].scans_used_in_window = 0
        /\ (/\ pc[r] \in {"finally", "done"} /\ ~req[r].dry_run
            /\ resp[r].reason = "OK" /\ granted = 1)
           => resp[r].scans_used_in_window = 1

\* C19: no step of a dry-mode request changes any key of the store: not the
\* cooldown, counter or lock keys and not the entitlement cache key, also on
\* the first request for the account.
C19_DryWritesNothing ==
    [][\A r \in Reqs :
          DryStep(r) => /\ cooldown' = cooldown /\ count' = count /\ lock' = lock
                        /\ features' = features]_vars

\* C20: whenever no request is being handled and the counter key exists, its
\* value is the number of real executions granted (OK) since the key was
\* created.
C20_CounterEqualsGrants ==
    (InHandler = {} /\ count # NoKey) => RedisGetNumber(count) = granted

\* request r holds the in-flight lock of its section
HoldsLock(r) == lock[req[r].section] # NoKey /\ lock[req[r].section].val = r

\* C21: every store call that writes the counter key (creation with value 1,
\* increment, TTL refresh) is made by a request that holds the in-flight lock
\* of its section at that moment.
C21_CounterWrittenUnderLock ==
    [][\A r \in Reqs :
          (/\ pc[r] \in {"setCount", "incr", "expire"}
           /\ pc'[r] \in {"lock", "done", "expire", "setCooldown"})
          => HoldsLock(r)]_vars

\* C22: once a request that acquired the lock has left the handler, the counter
\* counts its execution only if the cooldown is armed as well: no failure of a
\* store call leaves the counter written by it without the cooldown marker.
C22_CountedImpliesCooldownArmed ==
    \A r \in Reqs :
        (Done(r) /\ {"lock", "count"} \subseteq req[r].touched)
        => /\ "cooldown" \in req[r].touched
           /\ cooldown # NoKey /\ cooldown.ttl = COOLDOWN_SECONDS

C24_CooldownOnlyByGrantUnderLock ==
    [][/\ (cooldown' # cooldown /\ now' = now)
          => \E r \in Reqs :
                /\ pc[r] = "setCooldown" /\ pc'[r] = "ttlCooldownAfter"
                /\ ~req[r].dry_run /\ HoldsLock(r)
                /\ cooldown' = Key(1, COOLDOWN_SECONDS)
       /\ \A r \in Reqs :
             (pc[r] # "done" /\ pc'[r] = "done" /\ "cooldown" \in req'[r].touched)
             => resp'[r].reason = "OK"]_vars

\* C25: once a snapshot is cached for the account, a later resolution returns
\* it verbatim whatever the section, neither deriving enablement again nor
\* writing to the store, the cached snapshot never changes, and the enablement
\* a dry-mode response reports is the one the cached snapshot gives.
C25_CachedSnapshotVerbatim ==
    [][/\ features # NoFeats => features' = features
       /\ \A r \in Reqs :
             /\ (pc[r] = "getFeatures" /\ pc'[r] # "getFeatures" /\ features # NoFeats)
                => /\ req'[r].feats = features
                   /\ pc'[r] # "setFeatures"
                   /\ req'[r].touched = req[r].touched
             /\ (/\ pc[r] # "done" /\ pc'[r] = "done"
                 /\ req'[r].dry_run /\ req'[r].mc_id # NoId)
                => resp'[r].enabled = Enabled(features', req'[r].section)]_vars

\* C25 witness: a dry-mode request for a section the account's package enables
\* has been answered enabled = false from a snapshot built for the other
\* section, without writing the snapshot key.
C25_Witness ==
    \E r \in Reqs :
        /\ Done(r) /\ req[r].dry_run /\ req[r].mc_id # NoId
        /\ req[r].section \notin features.keys
        /\ Enabled(ComputeFeatures(req[r].mc_id, req[r].section), req[r].section)
        /\ ~resp[r].enabled /\ "features" \notin req[r].touched

\* C26: every lock key that exists is eventually absent again, whether its
\* holder releases it or crashes while holding it.
C26_LockEventuallyAbsent ==
    \A s \in Sections : (lock[s] # NoKey) ~> (lock[s] = NoKey)

\* C26 witness: a request holds the lock of a section whose earlier holder
\* crashed without releasing it.
C26_Witness ==
    \E a, b \in Reqs :
        /\ pc[a] = "crashed" /\ "lock" \in req[a].touched
        /\ InCritical(b) /\ HoldsLock(b) /\ ~req[b].dry_run
        /\ req[b].section = req[a].section /\ req[b].mc_id = req[a].mc_id

\* C27: whenever the real button is enabled, the snapshot held in elig was
\* returned by a dry-run for the account and section now selected and has
\* real_eligible_now = true.
C27_ButtonEnabledForSelection ==
    RealButtonEnabled
    => /\ ui.elig # NoElig /\ ui.elig.real_eligible_now
       /\ ui.elig.mc_id = ui.mcId /\ ui.elig.section = ui.section

====
